---------------------------- MODULE Spec2Model ----------------------------
(***************************************************************************)
(* Model of src/twgs/taskwarrior.py: the TaskWarrior task wrapper          *)
(* (TaskWarriorTask), its factory and its repository.                      *)
(*                                                                         *)
(* A record (the wrapper's _source, a Python dict) is a function whose     *)
(* DOMAIN is the set of keys present.  A key is the tuple of the words the *)
(* Python key is made of, joined there by "_": 'status' is <<"status">>,   *)
(* 'twgs_etag' is <<"twgs", "etag">>, 'twgs_assoc_gtasks' is               *)
(* <<"twgs", "assoc", "gtasks">>.  Every value stored in a record is a     *)
(* string.  Python's None is None where a string is expected and NoDate    *)
(* where a datetime is expected; a datetime is <<seconds, microseconds>>.  *)
(*                                                                         *)
(* Python dicts are objects: heap maps a cell to the dict it holds and     *)
(* ref[w] is the cell wrapper w's _source refers to.                       *)
(***************************************************************************)
EXTENDS Integers, Sequences, FiniteSets, TLC

VARIABLES heap, ref, db, last

vars == <<heap, ref, db, last>>

---------------------------------------------------------------------------
(* Bounds *)

\* Largest epoch second the date parser is asked about.
MaxEpoch == 3

\* Number of records the store can hold.
MaxTasks == 1

---------------------------------------------------------------------------
(* Values *)

None == "None"
NoDate == <<>>
Null == "null"

Wrappers == {"w1", "w2"}
MapCell == "M"
LoadCell == "L"
Cells == Wrappers \cup {MapCell, LoadCell}

EmptyDict == [k \in {} |-> None]

Has(d, k) == k \in DOMAIN d

Get(d, k, default) == IF k \in DOMAIN d THEN d[k] ELSE default

Put(d, k, v) == [x \in DOMAIN d \cup {k} |-> IF x = k THEN v ELSE d[x]]

Del(d, k) == [x \in DOMAIN d \ {k} |-> d[x]]

StartsWith(key, prefix) ==
    /\ Len(key) >= Len(prefix)
    /\ SubSeq(key, 1, Len(prefix)) = prefix

KUuid == <<"uuid">>
KStatus == <<"status">>
KProject == <<"project">>
KDescription == <<"description">>
KDue == <<"due">>
KEnd == <<"end">>

UDA_NAMESPACE == "twgs"
UDA_ASSOCIATION == <<UDA_NAMESPACE, "assoc">>
UDA_ETAG == <<UDA_NAMESPACE, "etag">>

\* An upstream task, as the wrapper reads it: provider, uid, etag, project,
\* subject, due, completed.
Task(provider, id, etag, project, subject, due, completed) ==
    [provider |-> provider, uid |-> id, etag |-> etag, project |-> project,
     subject |-> subject, due |-> due, completed |-> completed]

NoOther == [none |-> TRUE]

---------------------------------------------------------------------------
(* TaskWarriorTask: accessors and pure methods, on a record src *)

\* int(as_string): the number whose decimal form the string is.
ParseInt(s) == CHOOSE n \in 0..MaxEpoch : ToString(n) = s

parse_date(as_string) ==
    IF as_string = None THEN NoDate ELSE <<ParseInt(as_string), 0>>

format_date(as_timestamp) == ToString(as_timestamp[1])

\* A datetime cut to whole seconds.
WholeSecond(ts) == IF ts = NoDate THEN NoDate ELSE <<ts[1], 0>>

uid(src) == Get(src, KUuid, None)

\* self._source['status'] and self._source['description'] raise KeyError on
\* a record without the key.
KeyError == "KeyError"

status(src) == IF Has(src, KStatus) THEN src[KStatus] ELSE KeyError

project(src) == Get(src, KProject, None)

subject(src) == IF Has(src, KDescription) THEN src[KDescription] ELSE KeyError

due(src) == parse_date(Get(src, KDue, None))

completed(src) == parse_date(Get(src, KEnd, None))

is_pending(src) == status(src) = "pending"

is_completed(src) == status(src) = "completed"

is_deleted(src) == status(src) = "deleted"

AssociationKeys(src) == {k \in DOMAIN src : StartsWith(k, UDA_ASSOCIATION)}

\* association scans the keys in the dict's iteration order and returns the
\* value of the first that starts with the association prefix: every value
\* it can return, over the orders.
association(src) ==
    IF AssociationKeys(src) = {} THEN {None}
    ELSE {src[k] : k \in AssociationKeys(src)}

\* Variant: a completed task is never synced, associated or not.
should_sync_ignores_association(src, assoc) ==
    IF status(src) = "recurring" \/ is_deleted(src) THEN FALSE
    ELSE IF is_completed(src) THEN FALSE
    ELSE TRUE

\* should_sync, with assoc the value self.association returned.
should_sync(src, assoc) ==
    IF status(src) = "recurring" \/ is_deleted(src) THEN FALSE
    ELSE IF is_completed(src) /\ assoc = None THEN FALSE
    ELSE TRUE

association_key_for(upstream) == UDA_ASSOCIATION \o <<upstream.provider>>

is_associated_with(src, other) ==
    LET association_key == association_key_for(other) IN
    IF Has(src, association_key) THEN src[association_key] = other.uid
    ELSE FALSE

\* Variant: no test for the etag key; a missing etag compares as none.
stale_without_guard(src, other) ==
    Get(src, UDA_ETAG, None) # other.etag

stale(src, other) ==
    IF ~ Has(src, UDA_ETAG) THEN FALSE
    ELSE src[UDA_ETAG] # other.etag

\* _set_or_delete(key, value): set the key to the value, or delete it when
\* the value is none.
set_or_delete(src, key, value) ==
    IF value = None THEN Del(src, key) ELSE Put(src, key, value)

\* _set_or_delete(key, value, fmt=self.__format_date), value a datetime or
\* none.
set_or_delete_date(src, key, value) ==
    IF value = NoDate THEN Del(src, key) ELSE Put(src, key, format_date(value))

\* Variant: copy_from also copies the etag.
copy_from_with_etag(src, other) ==
    LET s1 == set_or_delete(src, KProject, other.project)
        s2 == set_or_delete(s1, KDescription, other.subject)
        s3 == set_or_delete_date(s2, KDue, other.due)
        s4 == set_or_delete_date(s3, KEnd, other.completed)
    IN  set_or_delete(s4, UDA_ETAG, other.etag)

\* Variant: 'end' is set from other.due.
copy_from_wrong_field(src, other) ==
    LET s1 == set_or_delete(src, KProject, other.project)
        s2 == set_or_delete(s1, KDescription, other.subject)
        s3 == set_or_delete_date(s2, KDue, other.due)
        s4 == set_or_delete_date(s3, KEnd, other.due)
    IN  s4

\* copy_from(other), other not None: the record afterwards.
copy_from(src, other) ==
    LET s1 == set_or_delete(src, KProject, other.project)
        s2 == set_or_delete(s1, KDescription, other.subject)
        s3 == set_or_delete_date(s2, KDue, other.due)
        s4 == set_or_delete_date(s3, KEnd, other.completed)
    IN  s4

\* Variant: the etag is written only when the record has none.
associate_with_keeps_etag(src, other) ==
    LET s1 == Put(src, association_key_for(other), other.uid)
    IN  IF Has(s1, UDA_ETAG) THEN s1 ELSE Put(s1, UDA_ETAG, other.etag)

\* Variant: the association keys of the other providers are dropped.
associate_with_single(src, other) ==
    LET cleared == [k \in DOMAIN src \ AssociationKeys(src) |-> src[k]]
        s1 == Put(cleared, association_key_for(other), other.uid)
    IN  Put(s1, UDA_ETAG, other.etag)

\* associate_with(other): the record afterwards.
associate_with(src, other) ==
    LET association_key == association_key_for(other)
        s1 == Put(src, association_key, other.uid)
    IN  Put(s1, UDA_ETAG, other.etag)


---------------------------------------------------------------------------
(* The store (taskw.TaskWarrior): db maps each assigned uuid to its record *)

UuidOf(n) == "uuid" \o ToString(n)

\* task_add(**fields): the store creates the record as pending, assigns it
\* the next identifier and returns the finalized record.
task_add(d, fields) ==
    LET u == UuidOf(Cardinality(DOMAIN d) + 1)
        rec == Put(Put(fields, KStatus, "pending"), KUuid, u)
    IN  [db |-> (u :> rec) @@ d, ret |-> rec]

\* task_update(record): the store replaces the record of that uuid.
task_update(d, rec) ==
    [db |-> [d EXCEPT ![rec[KUuid]] = rec], ret |-> rec]

\* task_done(uuid=..., end=...): the store marks the record of that uuid
\* completed at the given time and returns it.
task_done(d, kw) ==
    LET u == kw[KUuid]
        rec == Put(Put(d[u], KStatus, "completed"), KEnd, kw[KEnd])
    IN  [db |-> [d EXCEPT ![u] = rec], ret |-> rec]

\* task_delete(uuid=...): the store marks the record deleted.
task_delete(d, u) == [d EXCEPT ![u] = Put(@, KStatus, "deleted")]

Call(fn, arg) == [fn |-> fn, arg |-> arg]

---------------------------------------------------------------------------
(* State *)

Built(w) == ref[w] # Null

\* The record wrapper w's _source refers to.
Src(w) == heap[ref[w]]

\* What the last call was: the operation, the wrapper, the upstream task
\* passed, the value returned, the wrapper's record when it was called, and
\* (for save) the store calls issued and what they returned.
Called(op, w, other, ret, pre) ==
    [op |-> op, w |-> w, other |-> other, ret |-> ret,
     pre |-> pre, calls |-> <<>>, rets |-> <<>>]

Touch(op, w, other, ret) == Called(op, w, other, ret, EmptyDict)

---------------------------------------------------------------------------
(* TaskWarriorTaskFactory *)

\* Variant: TaskWarriorTask(M), without the copy.
create_from_map_no_copy(h, r, w, c) ==
    [heap |-> h, ref |-> [r EXCEPT ![w] = c]]

\* create_from(map=M), M the dict in cell c: TaskWarriorTask(M.copy()).
create_from_map(h, r, w, c) ==
    [heap |-> [h EXCEPT ![w] = h[c]], ref |-> [r EXCEPT ![w] = w]]

\* Variant: the new record is completed when T is.
create_from_other_by_completion(other) ==
    copy_from((KStatus :> IF other.completed = NoDate THEN "pending"
                          ELSE "completed"), other)

\* create_from(other=T): the record of the new wrapper.
create_from_other(other) == copy_from((KStatus :> "pending"), other)

\* A wrapper is an object: the factory constructs wrapper w once, and Discard
\* drops it (the sync engine is done with it).
CreateFromMap(w) ==
    LET n == create_from_map(heap, ref, w, MapCell) IN
    /\ ~ Built(w)
    /\ heap' = n.heap
    /\ ref' = n.ref
    /\ last' = Touch("create_from_map", w, NoOther, FALSE)
    /\ UNCHANGED db

CreateFromOther(w, other) ==
    /\ ~ Built(w)
    /\ heap' = [heap EXCEPT ![w] = create_from_other(other)]
    /\ ref' = [ref EXCEPT ![w] = w]
    /\ last' = Touch("create_from_other", w, other, FALSE)
    /\ UNCHANGED db

Discard(w) ==
    /\ Built(w)
    /\ heap' = [heap EXCEPT ![w] = EmptyDict]
    /\ ref' = [ref EXCEPT ![w] = Null]
    /\ last' = Touch("discard", w, NoOther, FALSE)
    /\ UNCHANGED db

---------------------------------------------------------------------------
(* TaskWarriorTask: the calls on wrapper w *)

CopyFrom(w, other) ==
    /\ Built(w)
    /\ heap' = [heap EXCEPT ![ref[w]] = copy_from(Src(w), other)]
    /\ last' = Called("copy_from", w, other, FALSE, Src(w))
    /\ UNCHANGED <<ref, db>>

AssociateWith(w, other) ==
    /\ Built(w)
    /\ heap' = [heap EXCEPT ![ref[w]] = associate_with(Src(w), other)]
    /\ last' = Called("associate_with", w, other, FALSE, Src(w))
    /\ UNCHANGED <<ref, db>>

StaleCall(w, other) ==
    /\ Built(w)
    /\ last' = Called("stale", w, other, stale(Src(w), other), Src(w))
    /\ UNCHANGED <<heap, ref, db>>

\* The caller sets or removes a key of the mapping it passed as map=.
MapSet(k, v) ==
    /\ heap' = [heap EXCEPT ![MapCell] = Put(@, k, v)]
    /\ last' = Touch("map_set", Null, NoOther, FALSE)
    /\ UNCHANGED <<ref, db>>

MapDel(k) ==
    /\ Has(heap[MapCell], k)
    /\ heap' = [heap EXCEPT ![MapCell] = Del(@, k)]
    /\ last' = Touch("map_del", Null, NoOther, FALSE)
    /\ UNCHANGED <<ref, db>>

---------------------------------------------------------------------------
(* TaskWarriorTaskRepository *)

\* all(), for the wrapper of stored record u: load_tasks builds the dict t
\* (in the load cell) and the factory wraps it with create_from(map=t).  The
\* list of loaded dicts is local to all(): t is gone at the return unless a
\* wrapper refers to it.
All(w, u) ==
    /\ ~ Built(w)
    /\ u \in DOMAIN db
    /\ LET loaded == [heap EXCEPT ![LoadCell] = db[u]]
           n == create_from_map(loaded, ref, w, LoadCell)
       IN  /\ heap' = IF \E x \in Wrappers : n.ref[x] = LoadCell THEN n.heap
                      ELSE [n.heap EXCEPT ![LoadCell] = EmptyDict]
           /\ ref' = n.ref
    /\ last' = Touch("all", w, NoOther, FALSE)
    /\ UNCHANGED db

Delete(w) ==
    /\ Built(w)
    /\ uid(Src(w)) \in DOMAIN db
    /\ db' = task_delete(db, uid(Src(w)))
    /\ last' = Touch("delete", w, NoOther, FALSE)
    /\ UNCHANGED <<heap, ref>>

\* The keys save passes to task_done: 'uuid' and 'end' of the record.
DoneKeys(src) == [k \in DOMAIN src \cap {KUuid, KEnd} |-> src[k]]

\* Variant: the record task_add returns is not kept.
save_keeps_source(d, src) ==
    LET first == IF uid(src) = None THEN task_add(d, src)
                 ELSE task_update(d, src)
        call1 == Call(IF uid(src) = None THEN "task_add" ELSE "task_update", src)
    IN  IF is_pending(src) /\ completed(src) # NoDate /\ uid(src) # None
        THEN LET second == task_done(first.db, DoneKeys(src)) IN
             [db |-> second.db, src |-> second.ret,
              calls |-> <<call1, Call("task_done", DoneKeys(src))>>,
              rets |-> <<first.ret, second.ret>>]
        ELSE [db |-> first.db, src |-> src, calls |-> <<call1>>,
              rets |-> <<first.ret>>]

\* Variant: task_done is issued whatever the status.
save_any_status(d, src) ==
    LET first == IF uid(src) = None THEN task_add(d, src)
                 ELSE task_update(d, src)
        src1 == IF uid(src) = None THEN first.ret ELSE src
        call1 == Call(IF uid(src) = None THEN "task_add" ELSE "task_update", src)
    IN  IF completed(src1) # NoDate
        THEN LET second == task_done(first.db, DoneKeys(src1)) IN
             [db |-> second.db, src |-> second.ret,
              calls |-> <<call1, Call("task_done", DoneKeys(src1))>>,
              rets |-> <<first.ret, second.ret>>]
        ELSE [db |-> first.db, src |-> src1, calls |-> <<call1>>,
              rets |-> <<first.ret>>]

\* save(task), task._source = src: the store and the record afterwards, the
\* store calls issued in order and what each returned.
save(d, src) ==
    LET first == IF uid(src) = None THEN task_add(d, src)
                 ELSE task_update(d, src)
        src1 == IF uid(src) = None THEN first.ret ELSE src
        call1 == Call(IF uid(src) = None THEN "task_add" ELSE "task_update", src)
    IN  IF is_pending(src1) /\ completed(src1) # NoDate
        THEN LET second == task_done(first.db, DoneKeys(src1)) IN
             [db |-> second.db, src |-> second.ret,
              calls |-> <<call1, Call("task_done", DoneKeys(src1))>>,
              rets |-> <<first.ret, second.ret>>]
        ELSE [db |-> first.db, src |-> src1, calls |-> <<call1>>,
              rets |-> <<first.ret>>]

\* save on wrapper w.  The store refuses (and save raises, changing nothing)
\* a create without a description or beyond its capacity, and an update of
\* an unknown uuid.
Save(w) ==
    /\ Built(w)
    /\ Has(Src(w), KStatus)
    /\ IF uid(Src(w)) = None
       THEN Has(Src(w), KDescription) /\ Cardinality(DOMAIN db) < MaxTasks
       ELSE uid(Src(w)) \in DOMAIN db
    /\ LET s == save(db, Src(w)) IN
       /\ db' = s.db
       /\ heap' = [heap EXCEPT ![w] = s.src]
       /\ ref' = [ref EXCEPT ![w] = w]
       /\ last' = [op |-> "save", w |-> w, other |-> NoOther, ret |-> FALSE,
                   pre |-> Src(w), calls |-> s.calls, rets |-> s.rets]

---------------------------------------------------------------------------
(* Inputs *)

Gtasks == "gtasks"
Trello == "trello"

\* Upstream tasks that differ in what copy_from reads.
ContentOthers ==
    {Task(Gtasks, "id1", "e1", p, s, dc[1], dc[2]) :
        p \in {None, "home"}, s \in {None, "buy milk"},
        dc \in {<<NoDate, NoDate>>, <<<<1, 0>>, NoDate>>,
                <<NoDate, <<3, 250000>>>>, <<<<2, 500000>>, <<3, 250000>>>>}}

\* Upstream tasks that differ in what associate_with reads.
AssocOthers ==
    {Task(a[1], a[2], a[3], "home", "buy milk", NoDate, NoDate) :
        a \in {<<Gtasks, "id1", "e1">>, <<Gtasks, "id2", "e2">>,
               <<Gtasks, "id1", "e2">>, <<Trello, "id1", "e3">>}}

\* Raw records a caller passes as map=: the new record of the factory's
\* example, and stored records of each status.
Stored(st) ==
    (KUuid :> "uuid1") @@ (KStatus :> st) @@ (KDescription :> "x")

TaskMaps ==
    {(KStatus :> "pending") @@ (KDescription :> "x"),
     Stored("pending"),
     Stored("completed") @@ (KEnd :> "2"),
     Stored("deleted") @@ (KEnd :> "2"),
     Stored("recurring") @@ (KDue :> "3")}

NewMap == (KStatus :> "pending") @@ (KDescription :> "x")

---------------------------------------------------------------------------
(* The wrapper alone: one wrapper, built from a raw record or from an      *)
(* upstream task, under any sequence of its calls.                         *)

InitWith(m, d) ==
    /\ heap = [c \in Cells |-> IF c = MapCell THEN m ELSE EmptyDict]
    /\ ref = [w \in Wrappers |-> Null]
    /\ db = d
    /\ last = Touch("init", Null, NoOther, FALSE)

InitTask == \E m \in TaskMaps : InitWith(m, EmptyDict)

NextTask ==
    \/ CreateFromMap("w1")
    \/ \E o \in ContentOthers : CreateFromOther("w1", o)
    \/ \E o \in ContentOthers : CopyFrom("w1", o)
    \/ \E o \in AssocOthers : AssociateWith("w1", o)
    \/ \E o \in AssocOthers : StaleCall("w1", o)
    \/ Discard("w1")

SpecTask == InitTask /\ [][NextTask]_vars

---------------------------------------------------------------------------
(* Properties of the wrapper alone (SpecTask) *)

\* C3: should_sync is false for a recurring record, false for a deleted one,
\* false for a completed one that holds no association key of any provider,
\* true for a completed one that holds an association key, and true for a
\* pending one, whatever calls produced the record and whichever matching
\* key the association scan returns.
C3_ShouldSync ==
    Built("w1") =>
        LET src == Src("w1")
            holds == AssociationKeys(src) # {}
        IN  \A a \in association(src) :
                /\ status(src) = "recurring" => ~ should_sync(src, a)
                /\ is_deleted(src) => ~ should_sync(src, a)
                /\ is_completed(src) /\ ~ holds => ~ should_sync(src, a)
                /\ is_completed(src) /\ holds => should_sync(src, a)
                /\ is_pending(src) => should_sync(src, a)

C3_Witness ==
    /\ Built("w1")
    /\ last.op = "associate_with"
    /\ is_completed(Src("w1"))
    /\ Cardinality(AssociationKeys(Src("w1"))) = 2
    /\ \A a \in association(Src("w1")) : should_sync(Src("w1"), a)

\* C4: stale(other) returns false on a record without the etag key, false
\* when the stored etag equals other.etag and true when it differs, and it
\* leaves the record as it was at the call.
C4_Stale ==
    last.op = "stale" =>
        LET src == Src(last.w)
            other == last.other
        IN  /\ ~ Has(src, UDA_ETAG) => last.ret = FALSE
            /\ Has(src, UDA_ETAG) /\ src[UDA_ETAG] = other.etag
                   => last.ret = FALSE
            /\ Has(src, UDA_ETAG) /\ src[UDA_ETAG] # other.etag
                   => last.ret = TRUE
            /\ src = last.pre

C4_Witness ==
    /\ last.op = "stale"
    /\ last.ret = TRUE
    /\ Has(Src(last.w), UDA_ETAG)
    /\ Src(last.w)[UDA_ETAG] # last.other.etag

\* C5: right after associate_with(other), is_associated_with(other) is true
\* and stale(other) is false, also when the record was associated with
\* another identifier of that provider or carried another etag.
C5_AssociateThenFresh ==
    last.op = "associate_with" =>
        /\ is_associated_with(Src(last.w), last.other)
        /\ ~ stale(Src(last.w), last.other)

C5_Witness ==
    /\ last.op = "associate_with"
    /\ Has(last.pre, association_key_for(last.other))
    /\ last.pre[association_key_for(last.other)] # last.other.uid
    /\ last.pre[UDA_ETAG] # last.other.etag
    /\ is_associated_with(Src(last.w), last.other)

\* The record keys copy_from writes follow set-or-delete.
SetOrDeleted(src, other) ==
    /\ Has(src, KProject) <=> other.project # None
    /\ Has(src, KProject) => src[KProject] = other.project
    /\ Has(src, KDescription) <=> other.subject # None
    /\ Has(src, KDescription) => src[KDescription] = other.subject
    /\ Has(src, KDue) <=> other.due # NoDate
    /\ Has(src, KDue) => src[KDue] = format_date(other.due)
    /\ Has(src, KEnd) <=> other.completed # NoDate
    /\ Has(src, KEnd) => src[KEnd] = format_date(other.completed)

\* C6 as claimed: after copy_from(other) the four keys follow set-or-delete
\* and every accessor reads back other's value (dates to the whole second),
\* subject included.
C6_Original ==
    last.op = "copy_from" =>
        LET src == Src(last.w)
            other == last.other
        IN  /\ SetOrDeleted(src, other)
            /\ project(src) = other.project
            /\ subject(src) = other.subject
            /\ due(src) = WholeSecond(other.due)
            /\ completed(src) = WholeSecond(other.completed)

\* C6, amended: after copy_from(other) the four keys follow set-or-delete;
\* project, due and completed read back other's value (dates to the whole
\* second); subject reads back other.subject when that is not none, and
\* raises the lookup error when it is none, the description key being gone.
C6_CopyFrom ==
    last.op = "copy_from" =>
        LET src == Src(last.w)
            other == last.other
        IN  /\ SetOrDeleted(src, other)
            /\ project(src) = other.project
            /\ other.subject # None => subject(src) = other.subject
            /\ other.subject = None => subject(src) = KeyError
            /\ due(src) = WholeSecond(other.due)
            /\ completed(src) = WholeSecond(other.completed)

C6_Witness ==
    /\ last.op = "copy_from"
    /\ Has(last.pre, KDue) /\ last.other.due = NoDate
    /\ Has(last.pre, KProject) /\ last.other.project = None
    /\ last.other.completed # NoDate
    /\ last.other.completed # WholeSecond(last.other.completed)
    /\ last.other.subject = None
    /\ ~ Has(Src(last.w), KDue)
    /\ completed(Src(last.w)) = WholeSecond(last.other.completed)

\* C10: associate_with(other) changes the association key of other's
\* provider and the etag key and no other key: the provider's key holds the
\* identifier of this call, the etag holds other's etag, an association with
\* a task of another provider stays, and no provider has two keys.
C10_AssociateFrame ==
    last.op = "associate_with" =>
        LET src == Src(last.w)
            pre == last.pre
            other == last.other
            written == {association_key_for(other), UDA_ETAG}
        IN  /\ DOMAIN src = DOMAIN pre \cup written
            /\ \A k \in DOMAIN pre \ written : src[k] = pre[k]
            /\ src[association_key_for(other)] = other.uid
            /\ src[UDA_ETAG] = other.etag
            /\ \A a \in AssocOthers :
                   a.provider # other.provider /\ is_associated_with(pre, a)
                       => is_associated_with(src, a)
            /\ \A k1, k2 \in AssociationKeys(src) :
                   k1[Len(k1)] = k2[Len(k2)] => k1 = k2

C10_Witness ==
    /\ last.op = "associate_with"
    /\ \E a \in AssocOthers :
           /\ a.provider # last.other.provider
           /\ is_associated_with(last.pre, a)
           /\ is_associated_with(Src(last.w), a)
           /\ Src(last.w)[UDA_ETAG] # a.etag
    /\ Has(last.pre, association_key_for(last.other))
    /\ last.pre[association_key_for(last.other)] # last.other.uid

---------------------------------------------------------------------------
(* The repository: one wrapper at a time over the store, starting from an  *)
(* empty store and a new record without etag or association.               *)

RepoOthers ==
    {Task(Gtasks, "id1", "e1", "home", "buy milk", <<1, 0>>, NoDate),
     Task(Trello, "id1", "e3", None, "buy milk", NoDate, <<3, 250000>>)}

InitRepo == InitWith(NewMap, EmptyDict)

NextRepo ==
    \/ CreateFromMap("w1")
    \/ \E o \in RepoOthers : CreateFromOther("w1", o)
    \/ \E u \in DOMAIN db : All("w1", u)
    \/ \E o \in RepoOthers : CopyFrom("w1", o)
    \/ \E o \in RepoOthers : AssociateWith("w1", o)
    \/ Save("w1")
    \/ Delete("w1")
    \/ Discard("w1")

SpecRepo == InitRepo /\ [][NextRepo]_vars

\* The record save holds after its create/update step.
AfterFirst == IF last.calls[1].fn = "task_add" THEN last.rets[1] ELSE last.pre

\* C1: save issues exactly one of task_add and task_update, first: task_add
\* with the whole record as the fields iff uid was none at the call, else
\* task_update with the record; after a create the wrapper holds the record
\* the store returned and its uid is not none.
C1_SaveCreateOrUpdate ==
    last.op = "save" =>
        /\ Len(last.calls) >= 1
        /\ {i \in DOMAIN last.calls :
                last.calls[i].fn \in {"task_add", "task_update"}} = {1}
        /\ last.calls[1].fn = "task_add" <=> uid(last.pre) = None
        /\ last.calls[1].arg = last.pre
        /\ last.calls[1].fn = "task_add" =>
               /\ Src(last.w) = last.rets[Len(last.rets)]
               /\ uid(Src(last.w)) # None
               /\ uid(AfterFirst) # None

C1_Witness ==
    /\ last.op = "save"
    /\ last.calls[1].fn = "task_add"
    /\ Len(last.calls) = 1
    /\ Has(last.pre, UDA_ETAG)
    /\ uid(Src(last.w)) # None

\* C2: in save, if after the create/update step the task is pending with a
\* completed timestamp, task_done is issued once, second, with exactly the
\* uuid and end of the record, and the record it returns becomes the
\* wrapper's; otherwise task_done is not issued.
C2_SaveMarksComplete ==
    last.op = "save" =>
        IF is_pending(AfterFirst) /\ completed(AfterFirst) # NoDate
        THEN /\ Len(last.calls) = 2
             /\ last.calls[1].fn # "task_done"
             /\ last.calls[2].fn = "task_done"
             /\ DOMAIN last.calls[2].arg = {KUuid, KEnd}
             /\ last.calls[2].arg[KUuid] = AfterFirst[KUuid]
             /\ last.calls[2].arg[KEnd] = AfterFirst[KEnd]
             /\ Src(last.w) = last.rets[2]
        ELSE \A i \in DOMAIN last.calls : last.calls[i].fn # "task_done"

C2_Witness ==
    /\ last.op = "save"
    /\ Len(last.calls) = 2
    /\ last.calls[1].fn = "task_update"
    /\ last.calls[2].fn = "task_done"
    /\ DOMAIN last.calls[1].arg # DOMAIN last.calls[2].arg
    /\ is_completed(Src(last.w))

C2_WitnessNotPending ==
    /\ last.op = "save"
    /\ ~ is_pending(AfterFirst)
    /\ completed(AfterFirst) # NoDate
    /\ Len(last.calls) = 1

\* The same wrapper object before and after the step.
Stays(w) == Built(w) /\ ref'[w] # Null /\ last'.op \notin {"discard"}

Etag(src) == Get(src, UDA_ETAG, None)

\* C8: from a record without etag and association, a record without the
\* etag key holds no association key, and only associate_with changes the
\* etag key of a wrapper's record.
C8_EtagOnlyByAssociate ==
    /\ [](\A w \in Wrappers : Built(w) /\ ~ Has(Src(w), UDA_ETAG)
              => AssociationKeys(Src(w)) = {})
    /\ [][\A w \in Wrappers :
              Stays(w) /\ Etag(heap'[ref'[w]]) # Etag(Src(w))
                  => last'.op = "associate_with" /\ last'.w = w]_vars

C8_Witness ==
    /\ last.op = "save"
    /\ Len(last.calls) = 2
    /\ Has(Src(last.w), UDA_ETAG)
    /\ Cardinality(AssociationKeys(Src(last.w))) = 2

C8_WitnessNoEtag ==
    /\ last.op = "save"
    /\ Len(last.calls) = 2
    /\ ~ Has(Src(last.w), UDA_ETAG)

\* C9: a wrapper built by create_from(other=T) is pending, also when T is
\* completed; copy_from and associate_with leave the status key alone; and
\* a wrapper's status turns completed only in a save that found the task
\* pending with a completed timestamp after its create/update step and
\* issued task_done, after task_add when the wrapper was unsaved.
C9_CompletedOnlyByDone ==
    /\ [](last.op = "create_from_other" => status(Src(last.w)) = "pending")
    /\ [][\A w \in Wrappers :
              /\ Stays(w) /\ last'.op \in {"copy_from", "associate_with"}
                     => status(heap'[ref'[w]]) = status(Src(w))
              /\ Stays(w) /\ is_completed(heap'[ref'[w]])
                          /\ ~ is_completed(Src(w))
                     => /\ last'.op = "save" /\ last'.w = w
                        /\ is_pending(Src(w))
                        /\ Len(last'.calls) = 2
                        /\ uid(Src(w)) = None
                               => last'.calls[1].fn = "task_add"
                        /\ last'.calls[1].fn \in {"task_add", "task_update"}
                        /\ last'.calls[1].arg[KStatus] = "pending"
                        /\ last'.calls[2].fn = "task_done"]_vars

C9_Witness ==
    /\ last.op = "save"
    /\ Len(last.calls) = 2
    /\ last.calls[1].fn = "task_add"
    /\ is_pending(last.pre)
    /\ is_completed(Src(last.w))

---------------------------------------------------------------------------
(* Ownership of the record: two wrappers, the mapping a caller passed as   *)
(* map= and keeps editing, and a stored record that all() loads.           *)

InitAlias == InitWith(NewMap, ("uuid1" :> Stored("pending")))

NextAlias ==
    \/ \E w \in Wrappers : CreateFromMap(w)
    \/ \E w \in Wrappers : \E u \in DOMAIN db : All(w, u)
    \/ \E w \in Wrappers : \E o \in RepoOthers : CopyFrom(w, o)
    \/ \E w \in Wrappers : \E o \in RepoOthers : AssociateWith(w, o)
    \/ \E w \in Wrappers : Discard(w)
    \/ MapSet(KDescription, "edited")
    \/ MapDel(KDescription)

SpecAlias == InitAlias /\ [][NextAlias]_vars

\* C7: a wrapper built by create_from(map=M) shares no storage with M or
\* with another wrapper: copy_from and associate_with on a wrapper leave M
\* and every other wrapper's record as they were, and a change of M leaves
\* every wrapper's record as it was.
C7_NoSharedStorage ==
    [][/\ last'.op \in {"copy_from", "associate_with"} =>
              /\ heap'[MapCell] = heap[MapCell]
              /\ \A v \in Wrappers \ {last'.w} :
                     Built(v) => ref'[v] # Null /\ heap'[ref'[v]] = Src(v)
       /\ last'.op \in {"map_set", "map_del"} =>
              \A w \in Wrappers :
                  Built(w) => ref'[w] # Null /\ heap'[ref'[w]] = Src(w)]_vars

C7_Witness ==
    /\ last.op = "associate_with"
    /\ last.w = "w1"
    /\ last.pre = heap[MapCell]
    /\ Src("w1") # heap[MapCell]
    /\ Built("w2")
    /\ Src("w2") = heap[MapCell]

C7_WitnessMapEdited ==
    /\ last.op = "map_set"
    /\ Built("w1") /\ Built("w2")
    /\ Src("w1") = Src("w2")
    /\ Src("w1") # heap[MapCell]
    /\ Src("w1") = NewMap

===========================================================================
